---- MODULE Spec2Model ----
(***************************************************************************)
(* A model of the MNIST decoder in dataset.go: assetReader, readIntensities,*)
(* readLabels, loadDataSet and DataSet.LabelVectors.                        *)
(*                                                                          *)
(* Representation of Go values:                                             *)
(*   uint8          a number in 0..255                                      *)
(*   uint32, int    a sequence of base-256 limbs, least significant first   *)
(*                  (4 limbs for uint32, 8 limbs for the 64-bit int, two's  *)
(*                  complement), so that width*height keeps its 64-bit      *)
(*                  wrap-around although TLC's integers have 32 bits        *)
(*   float64        a record [exp, frac]: the IEEE-754 biased exponent and  *)
(*                  the 52 fraction bits as four 13-bit limbs, most         *)
(*                  significant first                                       *)
(*   io.Reader      a record [data, end]: the bytes the reader delivers and *)
(*                  the error it reports once they are exhausted            *)
(***************************************************************************)
EXTENDS Integers, Sequences, FiniteSets, TLC

\* ------------------------------------------------------------------ bounds
MaxCount == 2     \* largest image count written into a header
MaxDim == 2       \* largest small width / height written into a header
MaxSeed == 1      \* payload patterns 0..MaxSeed

\* ------------------------------------------------------------- Go integers
RECURSIVE SumTo(_, _)
\* Sum of f[i] for i in 1..n.
SumTo(f, n) == IF n = 0 THEN 0 ELSE f[n] + SumTo(f, n - 1)

\* The 0-based base-256 limb k of a limb sequence, 0 beyond its length.
Limb(x, k) == IF k + 1 <= Len(x) THEN x[k + 1] ELSE 0

\* binary.BigEndian.Uint32 of four stream bytes: the first byte is the most
\* significant limb.
BigEndianUint32(b) == << b[4], b[3], b[2], b[1] >>

\* int(uint32) where int has 64 bits: zero extension.
IntOfUint32(u) == u \o << 0, 0, 0, 0 >>

\* The sum of the limb products of column k of a * b.
MulColumn(a, b, k) ==
    SumTo([i \in 1..(k + 1) |-> Limb(a, i - 1) * Limb(b, k - (i - 1))], k + 1)

RECURSIVE MulLimbs(_, _, _, _)
\* Limbs k..7 of a * b, given the carry into column k.
MulLimbs(a, b, k, carry) ==
    IF k = 8 THEN << >>
    ELSE LET s == MulColumn(a, b, k) + carry
         IN  << s % 256 >> \o MulLimbs(a, b, k + 1, s \div 256)

\* a * b on int: the low 64 bits of the product.
MulInt(a, b) == MulLimbs(a, b, 0, 0)

\* x < 0 for a 64-bit two's complement int.
IsNegative(x) == x[8] >= 128

\* 0 <= x < 2^24: x is a length the model's streams can be compared with.
IsSmall(x) == \A i \in 4..8 : x[i] = 0

\* The value of a small int.
ToNat(x) == x[1] + 256 * x[2] + 65536 * x[3]

\* The int 0.
IntZero == << 0, 0, 0, 0, 0, 0, 0, 0 >>

\* ---------------------------------------------------------------- readers
\* Error values. A reader ends with io.EOF when its gzip member is complete
\* and with io.ErrUnexpectedEOF when the compressed body is cut short.
EOF == "EOF"
ErrUnexpectedEOF == "unexpected EOF"
ErrNotEnoughData == "not enough data for image"
NoError == "nil"

\* "return nil, 0, 0, err" of readIntensities.
IntensitiesError(e) ==
    [results |-> << >>, isNil |-> TRUE, width |-> IntZero, height |-> IntZero,
     err |-> e, panic |-> FALSE]

\* make([]uint8, width*height) with a negative length: a run-time panic,
\* nothing is returned.
IntensitiesPanic ==
    [results |-> << >>, isNil |-> TRUE, width |-> IntZero, height |-> IntZero,
     err |-> NoError, panic |-> TRUE]

\* The error of io.ReadFull when only got of the wanted bytes arrive before
\* the reader ends with error e.
ReadFullError(e, got) == IF got > 0 /\ e = EOF THEN ErrUnexpectedEOF ELSE e

\* The error of the io.Copy of one image block that the reader cannot fill:
\* io.Copy swallows io.EOF (the block is then found short), and passes on any
\* other error. The blocks of the model are shorter than the 4096 bytes that
\* bufio buffers, so the error a reader ends with is met only by a read that
\* finds no more bytes.
ShortBlockError(e) == IF e = EOF THEN ErrNotEnoughData ELSE e

\* A block that loses its last byte.
ImageBlockShort(d, pos, size) == SubSeq(d, pos + 1, pos + size - 1)

\* One image block: the bytes the limited reader yields, copied into a vector
\* of width*height bytes.
ImageBlock(d, pos, size) == SubSeq(d, pos + 1, pos + size)

RECURSIVE ReadBlocks(_, _, _, _, _, _, _)
\* The loop over results of readIntensities: block j is read from offset pos;
\* acc holds the blocks read so far.
ReadBlocks(s, count, width, height, j, pos, acc) ==
    IF IsSmall(count) /\ ToNat(count) = j
    THEN [results |-> acc, isNil |-> FALSE, width |-> width, height |-> height,
          err |-> NoError, panic |-> FALSE]
    ELSE LET size == MulInt(width, height)
             avail == Len(s.data) - pos
         IN  IF IsNegative(size) THEN IntensitiesPanic
             ELSE IF ~IsSmall(size) \/ ToNat(size) > avail
                  THEN IntensitiesError(ShortBlockError(s.end))
                  ELSE ReadBlocks(s, count, width, height, j + 1,
                                  pos + ToNat(size),
                                  Append(acc, ImageBlock(s.data, pos, ToNat(size))))

\* Header field i (0, 1, 2) of an image stream of at least 16 bytes.
Param(d, i) == IntOfUint32(BigEndianUint32(SubSeq(d, 5 + 4 * i, 8 + 4 * i)))

\* Bytes of the magic prefix that readIntensities discards.
ImageMagicLen == 4

\* A readIntensities that rejects a header with a zero width or height.
readIntensitiesZeroRejected(s) ==
    LET n == Len(s.data)
    IN  IF n < ImageMagicLen THEN IntensitiesError(s.end)
        ELSE IF n < ImageMagicLen + 12
             THEN IntensitiesError(ReadFullError(s.end, (n - ImageMagicLen) % 4))
             ELSE IF Param(s.data, 1) = IntZero \/ Param(s.data, 2) = IntZero
                  THEN IntensitiesError("zero dimension")
                  ELSE ReadBlocks(s, Param(s.data, 0), Param(s.data, 1),
                                  Param(s.data, 2), 0, ImageMagicLen + 12, << >>)

\* A readIntensities that rejects any prefix but the IDX image magic.
readIntensitiesMagicChecked(s) ==
    LET n == Len(s.data)
    IN  IF n < ImageMagicLen THEN IntensitiesError(s.end)
        ELSE IF SubSeq(s.data, 1, ImageMagicLen) # << 0, 0, 8, 3 >>
             THEN IntensitiesError("bad magic")
             ELSE IF n < ImageMagicLen + 12
                  THEN IntensitiesError(ReadFullError(s.end, (n - ImageMagicLen) % 4))
                  ELSE ReadBlocks(s, Param(s.data, 0), Param(s.data, 1),
                                  Param(s.data, 2), 0, ImageMagicLen + 12, << >>)

\* readIntensities(reader): (results, width, height, err), or a panic.
readIntensities(s) ==
    LET n == Len(s.data)
    IN  IF n < ImageMagicLen THEN IntensitiesError(s.end)
        ELSE IF n < ImageMagicLen + 12
             THEN IntensitiesError(ReadFullError(s.end, (n - ImageMagicLen) % 4))
             ELSE ReadBlocks(s, Param(s.data, 0), Param(s.data, 1),
                             Param(s.data, 2), 0, ImageMagicLen + 12, << >>)

\* Bytes of the prefix that readLabels discards.
LabelHeaderLen == 8

\* The label byte read as a signed int8.
LabelOfByteSigned(b) == IF b >= 128 THEN b - 256 ELSE b

\* int(label) of one label byte.
LabelOfByte(b) == b

\* readLabels(reader, count): (labels, err).
readLabels(s, count) ==
    LET n == Len(s.data)
    IN  IF n < LabelHeaderLen THEN [labels |-> << >>, isNil |-> TRUE, err |-> s.end]
        ELSE IF n < LabelHeaderLen + count
             THEN [labels |-> << >>, isNil |-> TRUE, err |-> s.end]
             ELSE [labels |-> [i \in 1..count |->
                                  LabelOfByte(s.data[LabelHeaderLen + i])],
                   isNil |-> FALSE, err |-> NoError]

\* ---------------------------------------------------------------- float64
\* The 52 fraction bits of a float64 are kept as FracLimbs limbs of 13 bits
\* (base Radix), most significant first.
FracLimbs == 4
Radix == 8192
\* Exponent bias of a float64.
Bias == 1023

\* The float64 0.
FloatZero == [exp |-> 0, frac |-> [i \in 1..FracLimbs |-> 0]]

RECURSIVE Shift(_, _)
\* The least k >= 0 with n * 2^k >= d, for 0 < n <= d.
Shift(n, d) == IF n >= d THEN 0 ELSE 1 + Shift(2 * n, d)

RECURSIVE ScaleUp(_, _)
\* n * 2^Shift(n, d), for 0 < n <= d.
ScaleUp(n, d) == IF n >= d THEN n ELSE ScaleUp(2 * n, d)

RECURSIVE QuoLimbs(_, _, _)
\* The next k limbs of the expansion of r / d in base Radix, for 0 <= r < d.
QuoLimbs(r, d, k) ==
    IF k = 0 THEN << >>
    ELSE << (r * Radix) \div d >> \o QuoLimbs((r * Radix) % d, d, k - 1)

RECURSIVE QuoRem(_, _, _)
\* The remainder left after k limbs of the expansion of r / d.
QuoRem(r, d, k) ==
    IF k = 0 THEN r ELSE (QuoRem(r, d, k - 1) * Radix) % d

RECURSIVE IncLimbs(_)
\* limbs + 1, most significant limb first (the largest value wraps to 0).
IncLimbs(limbs) ==
    IF limbs = << >> THEN << >>
    ELSE LET m == Len(limbs)
         IN  IF limbs[m] < Radix - 1 THEN [limbs EXCEPT ![m] = limbs[m] + 1]
             ELSE Append(IncLimbs(SubSeq(limbs, 1, m - 1)), 0)

\* float64(n) / float64(d) for integers 0 <= n <= d, d > 0: the quotient
\* rounded to 53 significant bits, ties to even.
Float64Quo(n, d) ==
    IF n = 0 THEN FloatZero
    ELSE LET k == Shift(n, d)
             r == ScaleUp(n, d) - d
             frac == QuoLimbs(r, d, FracLimbs)
             rest == QuoRem(r, d, FracLimbs)
             up == 2 * rest > d \/ (2 * rest = d /\ frac[FracLimbs] % 2 = 1)
             carry == up /\ \A i \in 1..FracLimbs : frac[i] = Radix - 1
         IN  [exp |-> Bias - k + (IF carry THEN 1 ELSE 0),
              frac |-> IF up THEN IncLimbs(frac) ELSE frac]

\* The divisor of the normalisation in loadDataSet.
Scale == 255

\* A normalisation that divides by 256.
NormalizeBy256(x) == Float64Quo(x, Scale + 1)

\* float64(x) / 255.0 for a pixel byte x.
Normalize(x) == Float64Quo(x, Scale)

\* ------------------------------------------------------------- loadDataSet
\* The zero DataSet.
NoDataSet == [Samples |-> << >>, Width |-> IntZero, Height |-> IntZero]

\* The Sample built from image block i and label i.
MakeSample(block, label) ==
    [Intensities |-> [k \in 1..Len(block) |-> Normalize(block[k])],
     Label |-> label]

\* An assembly that pairs block i with the label counted from the end.
AssembleReversed(intensities, w, h, labels) ==
    [Samples |-> [i \in 1..Len(intensities) |->
                     MakeSample(intensities[i],
                                labels[Len(intensities) + 1 - i])],
     Width |-> w, Height |-> h]

\* The DataSet assembled from the decoded blocks and labels.
Assemble(intensities, w, h, labels) ==
    [Samples |-> [i \in 1..Len(intensities) |->
                     MakeSample(intensities[i], labels[i])],
     Width |-> w, Height |-> h]

\* Length of the vectors LabelVectors returns.
NumClasses == 10

\* A one-hot vector whose 1 sits one place early.
OneHotShifted(label) == [k \in 1..NumClasses |-> IF k = label THEN 1 ELSE 0]

\* res[i] of LabelVectors: ten zeros with a 1 at the label's index.
OneHot(label) == [k \in 1..NumClasses |-> IF k = label + 1 THEN 1 ELSE 0]

\* A LabelVectors that leaves the vector of an out-of-range label all zero.
LabelVectorsUnchecked(d) ==
    [res |-> [i \in 1..Len(d.Samples) |-> OneHot(d.Samples[i].Label)],
     panic |-> FALSE]

\* DataSet.LabelVectors: indexing res[i] outside 0..9 panics.
LabelVectors(d) ==
    IF \E i \in 1..Len(d.Samples) : d.Samples[i].Label \notin 0..(NumClasses - 1)
    THEN [res |-> << >>, panic |-> TRUE]
    ELSE [res |-> [i \in 1..Len(d.Samples) |-> OneHot(d.Samples[i].Label)],
          panic |-> FALSE]

\* ------------------------------------------------------------------ inputs
\* The four bytes binary.BigEndian writes for a number below 2^24.
Put32(v) == << 0, v \div 65536, (v \div 256) % 256, v % 256 >>

\* Pixel bytes and label bytes the input streams are filled with.
PixelCycle == << 0, 255, 128, 64, 255, 0, 0, 255 >>
LabelCycle == << 3, 7, 10, 255, 0, 9 >>

\* n bytes of a cycle, starting seed places into it.
Fill(cycle, seed, n) ==
    [i \in 1..n |-> cycle[((i - 1 + seed) % Len(cycle)) + 1]]

\* Header fields for width and height: the small ones, 2^16 (whose square
\* needs 33 bits) and 2^32 - 1 (whose square exceeds 2^63).
DimFields ==
    { Put32(v) : v \in 0..MaxDim } \cup { << 0, 1, 0, 0 >>, << 255, 255, 255, 255 >> }

\* The magic numbers of the IDX image and label files, and another prefix.
ImageMagic == << 0, 0, 8, 3 >>
LabelMagic == << 0, 0, 8, 1 >>
OtherMagic == << 255, 0, 8, 3 >>

\* The most labels a label stream holds.
MaxLabels == MaxCount + 1

\* What a reader ends with.
Ends == { EOF, ErrUnexpectedEOF }

\* The pixel bytes written after a header: one more than the header declares
\* (a single one after a header with a huge dimension, which no stream of the
\* model can fill).
PayloadLen(c, w, h) ==
    IF w[1] = 0 /\ w[2] = 0 /\ h[1] = 0 /\ h[2] = 0
    THEN c * (256 * w[3] + w[4]) * (256 * h[3] + h[4]) + 1
    ELSE 1

\* The first n bytes of a stream (all of it when it is shorter).
Cut(d, n) == SubSeq(d, 1, IF n < Len(d) THEN n ELSE Len(d))

\* Decompressed image streams: a header and pixel bytes, cut anywhere.
ImageStreams ==
    { [data |-> Cut(ImageMagic \o Put32(c) \o w \o h \o
                    Fill(PixelCycle, seed, PayloadLen(c, w, h)), n),
       end |-> e] :
        c \in 0..MaxCount, w \in DimFields, h \in DimFields,
        seed \in 0..MaxSeed, n \in 0..(17 + MaxCount * MaxDim * MaxDim),
        e \in Ends }

\* Decompressed label streams: a header with its own count and label bytes,
\* cut anywhere.
LabelStreams ==
    { [data |-> Cut(LabelMagic \o Put32(c) \o
                    Fill(LabelCycle, seed, MaxLabels), n),
       end |-> e] :
        c \in { 0, MaxCount }, seed \in 0..MaxSeed, n \in 0..(8 + MaxLabels),
        e \in Ends }

\* An embedded asset: whether its gzip header is valid, and the stream its
\* body decompresses to.
Asset(ok, s) == [gzipOK |-> ok, data |-> s.data, end |-> s.end]
NoAsset == [gzipOK |-> FALSE, data |-> << >>, end |-> EOF]

\* The embedded files: every stream behind a valid gzip header, and the
\* complete streams of at least full bytes behind an invalid one.
Assets(streams, full) ==
    { Asset(TRUE, s) : s \in streams }
    \cup { Asset(FALSE, s) : s \in { t \in streams : t.end = EOF /\ Len(t.data) >= full } }

\* ------------------------------------------------------------------- state
VARIABLES
    pc,          \* where the program is
    imageAsset,  \* the embedded image file read by assetReader
    labelAsset,  \* the embedded label file read by assetReader
    reader,      \* the io.Reader assetReader returned last
    imgRes,      \* intensities, w, h, err of loadDataSet
    lblRes,      \* labels, err of loadDataSet
    dataSet,     \* the DataSet loadDataSet returns
    vectors,     \* what LabelVectors returns
    trace,       \* the stages of loadDataSet executed so far
    callCount,   \* count of a direct readLabels call
    altStream,   \* the second stream of a pair of readIntensities calls
    altRes       \* its result

vars == << pc, imageAsset, labelAsset, reader, imgRes, lblRes, dataSet,
           vectors, trace, callCount, altStream, altRes >>

NoReader == [data |-> << >>, end |-> EOF]
NoIntensities ==
    [results |-> << >>, isNil |-> TRUE, width |-> IntZero, height |-> IntZero,
     err |-> NoError, panic |-> FALSE]
NoLabels == [labels |-> << >>, isNil |-> TRUE, err |-> NoError]
NoVectors == [res |-> << >>, panic |-> FALSE]

Init ==
    /\ pc = "start"
    /\ imageAsset = NoAsset
    /\ labelAsset = NoAsset
    /\ reader = NoReader
    /\ imgRes = NoIntensities
    /\ lblRes = NoLabels
    /\ dataSet = NoDataSet
    /\ vectors = NoVectors
    /\ trace = << >>
    /\ callCount = 0
    /\ altStream = NoReader
    /\ altRes = NoIntensities

\* An assetReader that ignores the error of gzip.NewReader.
assetReaderUnchecked(asset) ==
    [panic |-> FALSE, r |-> [data |-> asset.data, end |-> asset.end]]

\* gzip.NewReader(r) in assetReader: a panic on an invalid gzip header,
\* otherwise a reader of the decompressed stream (the length that assetReader
\* prints is not part of the state).
assetReader(asset) ==
    IF asset.gzipOK THEN [panic |-> FALSE, r |-> [data |-> asset.data, end |-> asset.end]]
    ELSE [panic |-> TRUE, r |-> NoReader]

\* loadDataSet, line 58: assetReader(imageFilename).
OpenImages ==
    /\ pc = "start"
    /\ \E a \in Assets(ImageStreams, 17) :
        LET o == assetReader(a)
        IN  /\ imageAsset' = a
            /\ reader' = o.r
            /\ pc' = IF o.panic THEN "panic" ELSE "readIntensities"
    /\ trace' = Append(trace, "openImages")
    /\ UNCHANGED << labelAsset, imgRes, lblRes, dataSet, vectors, callCount,
                    altStream, altRes >>

\* loadDataSet, lines 58-61: readIntensities and the check of its error.
DecodeImages ==
    /\ pc = "readIntensities"
    /\ LET o == readIntensities(reader)
       IN  /\ imgRes' = o
           /\ pc' = IF o.panic \/ o.err # NoError THEN "panic" ELSE "openLabels"
    /\ trace' = Append(trace, "decodeImages")
    /\ UNCHANGED << imageAsset, labelAsset, reader, lblRes, dataSet, vectors,
                    callCount, altStream, altRes >>

\* loadDataSet, line 62: assetReader(labelFilename).
OpenLabels ==
    /\ pc = "openLabels"
    /\ \E a \in Assets(LabelStreams, 8 + MaxLabels) :
        LET o == assetReader(a)
        IN  /\ labelAsset' = a
            /\ reader' = o.r
            /\ pc' = IF o.panic THEN "panic" ELSE "readLabels"
    /\ trace' = Append(trace, "openLabels")
    /\ UNCHANGED << imageAsset, imgRes, lblRes, dataSet, vectors, callCount,
                    altStream, altRes >>

\* loadDataSet, lines 62-65: readLabels with len(intensities), and the check
\* of its error.
DecodeLabels ==
    /\ pc = "readLabels"
    /\ LET o == readLabels(reader, Len(imgRes.results))
       IN  /\ lblRes' = o
           /\ pc' = IF o.err # NoError THEN "panic" ELSE "assemble"
    /\ trace' = Append(trace, "decodeLabels")
    /\ UNCHANGED << imageAsset, labelAsset, reader, imgRes, dataSet, vectors,
                    callCount, altStream, altRes >>

\* loadDataSet, lines 66-78: the DataSet is built and returned.
AssembleDataSet ==
    /\ pc = "assemble"
    /\ dataSet' = Assemble(imgRes.results, imgRes.width, imgRes.height,
                           lblRes.labels)
    /\ pc' = "done"
    /\ trace' = Append(trace, "assemble")
    /\ UNCHANGED << imageAsset, labelAsset, reader, imgRes, lblRes, vectors,
                    callCount, altStream, altRes >>

\* d.LabelVectors() on the loaded DataSet.
CallLabelVectors ==
    /\ pc = "done"
    /\ vectors' = LabelVectors(dataSet)
    /\ pc' = IF vectors'.panic THEN "vectorsPanic" ELSE "vectors"
    /\ UNCHANGED << imageAsset, labelAsset, reader, imgRes, lblRes, dataSet,
                    trace, callCount, altStream, altRes >>

\* readLabels called on a label stream with any count.
CallReadLabels ==
    /\ pc = "start"
    /\ \E s \in LabelStreams, count \in 0..MaxLabels :
        /\ reader' = s
        /\ callCount' = count
        /\ lblRes' = readLabels(s, count)
    /\ pc' = "readLabelsCalled"
    /\ UNCHANGED << imageAsset, labelAsset, imgRes, dataSet, vectors, trace,
                    altStream, altRes >>

\* A stream that differs from s in its first four bytes only, or in bytes
\* after byte n only.
Variants(s) ==
    { [s EXCEPT !.data = OtherMagic \o SubSeq(s.data, 5, Len(s.data))] }
    \cup { [s EXCEPT !.data = s.data \o Fill(LabelCycle, seed, k)] :
             seed \in 0..MaxSeed, k \in 1..2 }

\* readIntensities called on two image streams, the second a variant of the
\* first.
CallReadIntensitiesTwice ==
    /\ pc = "start"
    /\ \E s \in ImageStreams :
        /\ Len(s.data) >= 4
        /\ \E t \in Variants(s) :
            /\ reader' = s
            /\ imgRes' = readIntensities(s)
            /\ altStream' = t
            /\ altRes' = readIntensities(t)
    /\ pc' = "readIntensitiesCalled"
    /\ UNCHANGED << imageAsset, labelAsset, lblRes, dataSet, vectors, trace,
                    callCount >>

Next ==
    \/ OpenImages
    \/ DecodeImages
    \/ OpenLabels
    \/ DecodeLabels
    \/ AssembleDataSet
    \/ CallLabelVectors
    \/ CallReadLabels
    \/ CallReadIntensitiesTwice

Spec == Init /\ [][Next]_vars

\* ================================================================== claims
\* What the claims say about a stream is stated on its bytes, apart from the
\* operators of the model.

\* The big-endian u32 at bytes off .. off+3 (0-based) of d is v (v < 2^24).
FieldIs(d, off, v) ==
    /\ d[off + 1] = 0
    /\ d[off + 2] = v \div 65536
    /\ d[off + 3] = (v \div 256) % 256
    /\ d[off + 4] = v % 256

\* d has a whole header, and count * width * height = total for its fields.
Declares(d, total) ==
    /\ Len(d) >= 16
    /\ IF \E off \in { 4, 8, 12 } : FieldIs(d, off, 0)
       THEN total = 0
       ELSE total > 0 /\ \E c, a, b \in 1..total :
                /\ c * a * b = total
                /\ FieldIs(d, 4, c) /\ FieldIs(d, 8, a) /\ FieldIs(d, 12, b)

\* width * height = size for the header fields of d.
BlockSize(d, size) ==
    IF FieldIs(d, 8, 0) \/ FieldIs(d, 12, 0)
    THEN size = 0
    ELSE size > 0 /\ \E a, b \in 1..size :
             a * b = size /\ FieldIs(d, 8, a) /\ FieldIs(d, 12, b)

\* d holds its header and every byte the header declares.
Complete(d) == \E total \in 0..(Len(d) - 16) : Declares(d, total)

\* The int that the big-endian u32 at bytes off .. off+3 of d denotes.
FieldInt(d, off) == << d[off + 4], d[off + 3], d[off + 2], d[off + 1], 0, 0, 0, 0 >>

\* loadDataSet has returned its DataSet.
Loaded == pc \in { "done", "vectors", "vectorsPanic" }

\* readIntensities has returned (or panicked) on the image asset's stream.
ImagesDecoded == Len(trace) >= 2

\* C1: a DataSet returned by loadDataSet has exactly count samples (the u32 at
\* bytes 4..7 of the image stream), as many image blocks and labels were
\* decoded, and every sample holds width*height intensities.
C1_SampleCount ==
    Loaded =>
        LET d == imageAsset.data
            n == Len(dataSet.Samples)
        IN  /\ FieldIs(d, 4, n)
            /\ Len(imgRes.results) = n
            /\ Len(lblRes.labels) = n
            /\ \A i \in 1..n : BlockSize(d, Len(dataSet.Samples[i].Intensities))

C1_Witness ==
    /\ pc = "done"
    /\ Len(dataSet.Samples) = MaxCount
    /\ Len(dataSet.Samples[1].Intensities) = MaxDim * MaxDim

\* C2: on an image stream shorter than it declares (fewer than 16 bytes, or
\* fewer than 16 + count*width*height), readIntensities returns a non-nil
\* error with nil results and width = height = 0.
C2_TruncatedFails ==
    ImagesDecoded /\ ~Complete(imageAsset.data) =>
        /\ ~imgRes.panic
        /\ imgRes.err # NoError
        /\ imgRes.isNil /\ imgRes.results = << >>
        /\ imgRes.width = IntZero /\ imgRes.height = IntZero

\* The extent of the failure of C2_TruncatedFails: a truncated stream gets
\* the error return unless width*height wraps around to a negative int.
C2_TruncatedFailsNoWrap ==
    ImagesDecoded /\ ~Complete(imageAsset.data) =>
        \/ /\ Len(imageAsset.data) >= 16
           /\ IsNegative(MulInt(FieldInt(imageAsset.data, 8),
                                FieldInt(imageAsset.data, 12)))
        \/ /\ ~imgRes.panic
           /\ imgRes.err # NoError
           /\ imgRes.isNil /\ imgRes.results = << >>
           /\ imgRes.width = IntZero /\ imgRes.height = IntZero

\* The header of the image stream declares width = 0 or height = 0.
ZeroDimension ==
    /\ Len(imageAsset.data) >= 16
    /\ FieldIs(imageAsset.data, 8, 0) \/ FieldIs(imageAsset.data, 12, 0)

\* C3 as stated: a header with width = 0 or height = 0 makes readIntensities
\* fail with an error.
C3_ZeroDimensionFails ==
    ImagesDecoded /\ ZeroDimension => imgRes.err # NoError

\* C3 as amended: a header with width = 0 or height = 0 is accepted:
\* readIntensities returns count empty blocks, the declared width and height
\* and no error.
C3_ZeroDimensionAccepted ==
    ImagesDecoded /\ ZeroDimension =>
        /\ ~imgRes.panic
        /\ imgRes.err = NoError
        /\ ~imgRes.isNil
        /\ FieldIs(imageAsset.data, 4, Len(imgRes.results))
        /\ \A j \in 1..Len(imgRes.results) : imgRes.results[j] = << >>
        /\ imgRes.width = FieldInt(imageAsset.data, 8)
        /\ imgRes.height = FieldInt(imageAsset.data, 12)

C3_Witness ==
    /\ ImagesDecoded /\ ZeroDimension
    /\ Len(imgRes.results) = MaxCount
    /\ imgRes.results[1] = << >>

\* C4: readLabels(stream, count) returns count labels, label i being stream
\* byte 8+i, or, when the stream has fewer than 8 + count bytes, an error and
\* a nil slice; bytes 0..7 of the stream do not matter.
C4_ReadLabels ==
    pc = "readLabelsCalled" =>
        IF Len(reader.data) < 8 + callCount
        THEN lblRes.err # NoError /\ lblRes.isNil /\ lblRes.labels = << >>
        ELSE /\ lblRes.err = NoError
             /\ ~lblRes.isNil
             /\ Len(lblRes.labels) = callCount
             /\ \A i \in 1..callCount : lblRes.labels[i] = reader.data[8 + i]

C4_Witness ==
    /\ pc = "readLabelsCalled"
    /\ callCount = MaxLabels
    /\ lblRes.err = NoError
    /\ ~FieldIs(reader.data, 4, callCount)
    /\ \E i \in 1..callCount : lblRes.labels[i] >= 128

\* The raw byte of pixel k of image i in the image asset, whose blocks hold
\* size bytes each.
RawPixel(i, k, size) == imageAsset.data[16 + (i - 1) * size + k]

\* C5: in a returned DataSet, sample i holds the pixels of image block i of
\* the image stream, in order, and the label byte 8+i of the label stream;
\* Width and Height are the header's width and height.
C5_Pairing ==
    Loaded =>
        /\ \A i \in 1..Len(dataSet.Samples) :
              LET sample == dataSet.Samples[i]
                  size == Len(sample.Intensities)
              IN  /\ BlockSize(imageAsset.data, size)
                  /\ \A k \in 1..size :
                        sample.Intensities[k] = Normalize(RawPixel(i, k, size))
                  /\ sample.Label = labelAsset.data[8 + i]
        /\ dataSet.Width = FieldInt(imageAsset.data, 8)
        /\ dataSet.Height = FieldInt(imageAsset.data, 12)

C5_Witness ==
    /\ pc = "done"
    /\ Len(dataSet.Samples) = MaxCount
    /\ dataSet.Samples[1].Label # dataSet.Samples[MaxCount].Label
    /\ Len(dataSet.Samples[1].Intensities) = MaxDim
    /\ dataSet.Samples[1].Intensities # dataSet.Samples[MaxCount].Intensities
    /\ dataSet.Width # dataSet.Height

\* The float64 1.
FloatOne == [exp |-> Bias, frac |-> [i \in 1..FracLimbs |-> 0]]

\* x < y for two float64 that are not negative: the order of (exp, frac).
FloatLess(x, y) ==
    \/ x.exp < y.exp
    \/ /\ x.exp = y.exp
       /\ \E i \in 1..FracLimbs :
             /\ x.frac[i] < y.frac[i]
             /\ \A j \in 1..(i - 1) : x.frac[j] = y.frac[j]

RECURSIVE Times255(_, _, _)
\* Limbs i.. (least significant first, base 8192) of 255 * m, m a limb
\* sequence, given the carry into limb i.
Times255(m, i, carry) ==
    IF i > Len(m) THEN << carry >>
    ELSE LET t == 255 * m[i] + carry
         IN  << t % 8192 >> \o Times255(m, i + 1, t \div 8192)

\* x is the float64 nearest to b / 255: with x = M * 2^(-52-s), M the 53-bit
\* significand, 255 * M differs from b * 2^(52+s) by at most 127.
NearestTo(x, b) ==
    IF b = 0 THEN x = FloatZero
    ELSE LET m == << x.frac[4], x.frac[3], x.frac[2], x.frac[1], 1 >>
             n == Times255(m, 1, 0)
             s == 1023 - x.exp
             high == n[5] + 8192 * n[6]
         IN  /\ s \in 0..8
             /\ \/ /\ n[1] <= 127 /\ n[2] = 0 /\ n[3] = 0 /\ n[4] = 0
                   /\ high = b * 2^s
                \/ /\ n[1] >= 8192 - 127 /\ n[2] = 8191 /\ n[3] = 8191
                   /\ n[4] = 8191
                   /\ high + 1 = b * 2^s

\* C6: every intensity of a decoded DataSet is rawByte/255 as a float64, lies
\* in [0, 1] with 0 for byte 0 and 1 for byte 255; the mapping is the same for
\* all 256 byte values and strictly increasing.
C6_Normalized ==
    /\ Loaded =>
          \A i \in 1..Len(dataSet.Samples) :
              LET v == dataSet.Samples[i].Intensities
              IN  \A k \in 1..Len(v) :
                      LET b == RawPixel(i, k, Len(v))
                      IN  /\ NearestTo(v[k], b)
                          /\ ~FloatLess(v[k], FloatZero)
                          /\ ~FloatLess(FloatOne, v[k])
                          /\ (b = 0 => v[k] = FloatZero)
                          /\ (b = 255 => v[k] = FloatOne)
                          /\ \A l \in 1..Len(v) :
                                b < RawPixel(i, l, Len(v)) => FloatLess(v[k], v[l])
    /\ pc = "start" =>
          \A b \in 0..255 :
              /\ NearestTo(Normalize(b), b)
              /\ b < 255 => FloatLess(Normalize(b), Normalize(b + 1))
              /\ b = 255 => Normalize(b) = FloatOne

C6_Witness ==
    /\ pc = "done"
    /\ \E i \in 1..Len(dataSet.Samples) :
          LET v == dataSet.Samples[i].Intensities
          IN  /\ Len(v) >= 2
              /\ \E k, l \in 1..Len(v) :
                    /\ RawPixel(i, k, Len(v)) = 255 /\ v[k] = FloatOne
                    /\ RawPixel(i, l, Len(v)) = 128
                    /\ FloatLess(v[l], v[k]) /\ FloatLess(FloatZero, v[l])

\* Every label of the DataSet d lies in 0..9.
LabelsInRange(d) == \A i \in 1..Len(d.Samples) : d.Samples[i].Label \in 0..9

\* v holds, for each sample of d in order, ten numbers: 1 at the index of the
\* sample's label and 0 at the other nine.
OneHotOf(v, d) ==
    /\ ~v.panic
    /\ Len(v.res) = Len(d.Samples)
    /\ \A i \in 1..Len(d.Samples) :
          /\ Len(v.res[i]) = 10
          /\ \A k \in 0..9 :
                v.res[i][k + 1] = IF k = d.Samples[i].Label THEN 1 ELSE 0

\* C7: on a DataSet whose labels all lie in [0,9], LabelVectors returns one
\* one-hot vector of length 10 per sample, in sample order, and leaves the
\* DataSet as it was.
C7_OneHot ==
    [][pc = "done" /\ LabelsInRange(dataSet) =>
          /\ pc' = "vectors"
          /\ OneHotOf(vectors', dataSet)
          /\ dataSet' = dataSet]_vars

C7_Witness ==
    /\ pc = "vectors"
    /\ Len(dataSet.Samples) = MaxCount
    /\ dataSet.Samples[1].Label # dataSet.Samples[MaxCount].Label
    /\ vectors.res[1] # vectors.res[MaxCount]

\* C8: on a DataSet with a label outside [0,9] LabelVectors panics and
\* returns nothing; it returns vectors only when every label is in range.
C8_OutOfRangePanics ==
    pc \in { "vectors", "vectorsPanic" } =>
        /\ vectors.panic <=> ~LabelsInRange(dataSet)
        /\ vectors.panic <=> pc = "vectorsPanic"
        /\ vectors.panic => vectors.res = << >>

C8_Witness ==
    /\ pc = "vectorsPanic"
    /\ vectors.panic
    /\ \E i \in 1..Len(dataSet.Samples) :
          /\ dataSet.Samples[i].Label >= 10
          /\ dataSet.Samples[i].Label = labelAsset.data[8 + i]

\* The stages of loadDataSet, in the order of the code.
StageOrder ==
    << "openImages", "decodeImages", "openLabels", "decodeLabels", "assemble" >>

\* The stage that trace ends with has failed, and those before it have not.
LastStageFailed ==
    /\ Len(trace) \in 1..4
    /\ Len(trace) = 1 <=> ~imageAsset.gzipOK
    /\ Len(trace) = 2 => imgRes.panic \/ imgRes.err # NoError
    /\ Len(trace) > 2 => ~imgRes.panic /\ imgRes.err = NoError
    /\ Len(trace) = 3 => ~labelAsset.gzipOK
    /\ Len(trace) = 4 => labelAsset.gzipOK /\ lblRes.err # NoError

\* C9: the stages of loadDataSet run in the order open images, decode images,
\* open labels, decode labels, assemble; an asset with an invalid gzip header
\* stops the load in assetReader, before readIntensities or readLabels reads
\* it; a failing stage ends the load: no later stage runs and no DataSet is
\* returned.
C9_FailFast ==
    /\ trace = SubSeq(StageOrder, 1, Len(trace))
    /\ Len(trace) >= 1 /\ ~imageAsset.gzipOK =>
          pc = "panic" /\ Len(trace) = 1 /\ imgRes = NoIntensities
    /\ Len(trace) >= 3 /\ ~labelAsset.gzipOK =>
          pc = "panic" /\ Len(trace) = 3 /\ lblRes = NoLabels
    /\ pc = "panic" =>
          LastStageFailed /\ dataSet = NoDataSet /\ vectors = NoVectors
    /\ Loaded => Len(trace) = 5

C9_Witness ==
    /\ pc = "panic"
    /\ ~imageAsset.gzipOK
    /\ Len(imageAsset.data) >= 16
    /\ trace = << "openImages" >>

\* t differs from s in its first four bytes only.
MagicDiffers(s, t) ==
    /\ t.end = s.end
    /\ Len(t.data) = Len(s.data)
    /\ \A i \in 5..Len(s.data) : t.data[i] = s.data[i]

\* t is s with bytes added after the payload that the header of s declares.
TrailingDiffers(s, t) ==
    /\ t.end = s.end
    /\ Complete(s.data)
    /\ Len(t.data) > Len(s.data)
    /\ SubSeq(t.data, 1, Len(s.data)) = s.data

\* C10: two image streams that differ only in their four magic bytes, or
\* only in bytes after the declared payload, get the same outcome from
\* readIntensities.
C10_MagicAndTrailingIgnored ==
    pc = "readIntensitiesCalled" =>
        (MagicDiffers(reader, altStream) \/ TrailingDiffers(reader, altStream)
            => altRes = imgRes)

C10_Witness ==
    /\ pc = "readIntensitiesCalled"
    /\ MagicDiffers(reader, altStream)
    /\ SubSeq(reader.data, 1, 4) # SubSeq(altStream.data, 1, 4)
    /\ altRes.err = NoError
    /\ Len(altRes.results) = MaxCount
    /\ Len(altRes.results[1]) = MaxDim * MaxDim
====
